---------------------------- MODULE Spec2Model ----------------------------
(***************************************************************************)
(* Rollback trigger (src/lambda/rollback-trigger/lambda_function.py).      *)
(*                                                                         *)
(* One invocation of lambda_handler is a sequential process: it parses and *)
(* validates the event, resolves an image tag from the CI system when the  *)
(* request carries none, writes an audit item, dispatches the rollback     *)
(* workflow, sleeps, looks up the most recent run of that workflow,        *)
(* updates the audit item and answers.  Every call to an outside service   *)
(* (the CI system's REST API, the audit table) is one step; the service's  *)
(* answer is chosen nondeterministically among the answers it can give.    *)
(* The audit table, the CI system's list of rollback runs and the wall     *)
(* clock are shared by all invocations.                                    *)
(***************************************************************************)
EXTENDS Integers, Sequences, FiniteSets, TLC

(***************************************************************************)
(* Bounds of the model.                                                    *)
(***************************************************************************)
\* Largest reading of the wall clock (epoch seconds).
MaxClock == 2
\* Most runs in one answer of the deploy.yml run listing.
MaxRuns == 2
\* Most artifacts in one answer of an artifact listing.
MaxArtifacts == 2
\* Most runs of rollback.yml that exist before any invocation starts.
MaxOldRuns == 1

\* time.sleep(2): the seconds trigger_github_workflow waits before the lookup.
SleepSeconds == 2

\* The invocations.
Inv == {1, 2}

(***************************************************************************)
(* Python values.  None and a missing dict key are kept apart: a dict is a *)
(* function whose domain holds only the keys that are present.             *)
(***************************************************************************)
None == "<None>"
Absent == "<absent>"

Falsy(v) == v = None \/ v = ""

\* dict.get(key, default)
Get(d, key, default) == IF key \in DOMAIN d THEN d[key] ELSE default

Min(a, b) == IF a <= b THEN a ELSE b

\* json.dumps / json.loads: a JSON text is either the encoding of a value or
\* a text that is no JSON at all.
JsonDumps(v) == [valid |-> TRUE, doc |-> v]
MalformedJson == [valid |-> FALSE]

JsonLoads(s) ==
    IF s.valid THEN [ok |-> TRUE, value |-> s.doc]
               ELSE [ok |-> FALSE, exc |-> "JSONDecodeError"]

PyNone == [type |-> "NoneType"]
PyList == [type |-> "list"]
PyStr(s) == [type |-> "str", value |-> s]
PyDict(d) == [type |-> "dict", value |-> d]

(***************************************************************************)
(* Configuration.                                                          *)
(***************************************************************************)
GITHUB_REPO_OWNER == "Softbank-mango"
GITHUB_REPO_NAME == "deplight-infra"
WORKFLOW_FILE == "rollback.yml"
WORKFLOW_BRANCH == "roll-back"

(***************************************************************************)
(* The requests.                                                           *)
(***************************************************************************)
EnvValues == {Absent, None, "", "dev", "prod", "staging"}
UserValues == {Absent, "", "u@example.com"}
TagValues == {Absent, "", "abc123d"}
TypeValues == {Absent, "ecs-taskdef"}

BodyKeys == {"environment", "rollback_type", "image_tag", "user_id"}

\* The request body with the given fields; a field given as Absent is not a
\* key of the dict.
MakeBody(env, typ, tag, usr) ==
    LET all == [k \in BodyKeys |->
                  CASE k = "environment" -> env
                    [] k = "rollback_type" -> typ
                    [] k = "image_tag" -> tag
                    [] k = "user_id" -> usr]
    IN [k \in {x \in BodyKeys : all[x] # Absent} |-> all[k]]

Bodies ==
    {MakeBody(env, typ, tag, usr) :
        env \in EnvValues, typ \in TypeValues, tag \in TagValues, usr \in UserValues}

\* event['body'] as the API gateway hands it over: a dict, the JSON text of a
\* dict, null, a text that is no JSON, or the JSON text of a list or of null.
BodyValues ==
    {PyDict(b) : b \in Bodies}
    \cup {PyStr(JsonDumps(PyDict(b))) : b \in Bodies}
    \cup {PyNone, PyStr(MalformedJson), PyStr(JsonDumps(PyList)),
          PyStr(JsonDumps(PyNone))}

\* The events: with a body, or without the key 'body'.
Events ==
    {[httpMethod |-> "POST", body |-> v] : v \in BodyValues}
    \cup {[httpMethod |-> "POST"]}

(***************************************************************************)
(* The CI system's answers.                                                *)
(***************************************************************************)
Shas == {"a1b2c3d4e5f6", "0f9e8d7c6b5a"}

\* A deploy.yml run as the run listing returns it.
DeployRun(n, sha) ==
    [id |-> n, head_sha |-> sha,
     artifacts_url |-> "runs/" \o ToString(n) \o "/artifacts"]

\* The answers of GET .../deploy.yml/runs: most recent run first.
RunLists ==
    UNION {{[k \in 1..n |-> DeployRun(n + 1 - k, shas[k])] : shas \in [1..n -> Shas]} :
             n \in 0..MaxRuns}

ArtifactNames ==
    {"last-successful-deployment-dev", "last-successful-deployment-prod",
     "terraform-plan"}

Artifact(name) == [name |-> name, archive_download_url |-> "zip/" \o name]

\* The answers of GET <artifacts_url>.
ArtifactLists ==
    UNION {{[k \in 1..n |-> Artifact(names[k])] : names \in [1..n -> ArtifactNames]} :
             n \in 0..MaxArtifacts}

\* How a GET ends: a 2xx answer with a JSON body, a 4xx/5xx answer, no answer
\* at all (requests raises), or a 2xx answer whose body is not the JSON
\* expected.
GetOutcomes == {"ok", "http_error", "network_error", "malformed"}

\* How the dispatch POST ends.
PostOutcomes == {"accepted", "http_error", "network_error"}

\* str(e) of the exception a failed request raises.
RequestException(outcome) ==
    CASE outcome = "http_error" -> "HTTPError"
      [] outcome = "network_error" -> "ConnectionError"
      [] outcome = "malformed" -> "JSONDecodeError"

(***************************************************************************)
(* The pure parts of lambda_handler and of its helpers.                    *)
(***************************************************************************)
\* The body lambda_handler works on: the decoded text when event['body'] is
\* a str, else event.get('body', {}).  json.loads may raise.
ParseBody(ev) ==
    IF "body" \in DOMAIN ev /\ ev.body.type = "str"
    THEN JsonLoads(ev.body.value)
    ELSE [ok |-> TRUE, value |-> Get(ev, "body", PyDict(<<>>))]

\* str(e) of the AttributeError body.get raises on a body that is no dict.
AttributeError(type) == "'" \o type \o "' object has no attribute 'get'"

\* The checks of the required fields, in the code's order: the message of
\* the first check that fails, or "" when all pass.
Validate(environment, user_id) ==
    IF Falsy(environment) THEN "environment is required"
    ELSE IF environment \notin {"dev", "prod"}
         THEN "environment must be 'dev' or 'prod'"
    ELSE IF Falsy(user_id) THEN "user_id is required"
    ELSE ""

ErrorHeaders ==
    ("Content-Type" :> "application/json")
    @@ ("Access-Control-Allow-Origin" :> "*")

SuccessHeaders ==
    ("Content-Type" :> "application/json")
    @@ ("Access-Control-Allow-Origin" :> "*")
    @@ ("Access-Control-Allow-Headers" :> "Content-Type")
    @@ ("Access-Control-Allow-Methods" :> "POST, OPTIONS")

error_response(status_code, message) ==
    [statusCode |-> status_code,
     headers |-> ErrorHeaders,
     body |-> JsonDumps([status |-> "error", message |-> message])]

\* The exception leaves lambda_handler: there is no answer.
Unhandled(e) == [statusCode |-> 0]

\* The answer of the except clause of lambda_handler.
InternalError(e) == error_response(500, "Internal server error: " \o e)

NotFound(environment) ==
    error_response(404,
        "No previous successful deployment found for " \o environment)

SuccessResponse(audit_id, workflow_run_id, environment, rollback_type, image_tag) ==
    [statusCode |-> 200,
     headers |-> SuccessHeaders,
     body |-> JsonDumps(
        [status |-> "success",
         message |-> "Rollback initiated",
         data |-> [audit_id |-> audit_id,
                   workflow_run_id |-> workflow_run_id,
                   environment |-> environment,
                   rollback_type |-> rollback_type,
                   image_tag |-> image_tag,
                   estimated_duration |-> "3-5 minutes",
                   monitor_url |-> "https://github.com/" \o GITHUB_REPO_OWNER
                                   \o "/" \o GITHUB_REPO_NAME \o "/actions"]])]

\* The version resolver is asked whether or not the request has a tag.
AfterValidationAlwaysResolving(image_tag) == "get_runs"

\* With an image tag the handler goes straight to the dispatch.
AfterValidationWithoutAudit(image_tag) ==
    IF Falsy(image_tag) THEN "get_runs" ELSE "dispatch"

\* Lines 66-67 and 72: with an image tag the handler goes on to the audit
\* record, without one it first asks the version resolver.
AfterValidation(image_tag) == IF Falsy(image_tag) THEN "get_runs" ELSE "log"

\* The last run of the page instead of the first.
OldestRun(runs) == runs[Len(runs)]

\* Line 146: latest_run = runs[0].
LatestRun(runs) == runs[1]

\* The name of the artifact that marks a deployment to the environment.
ArtifactName(environment) == "last-successful-deployment-" \o environment

\* The for loop of get_last_successful_image_tag: the index of the first
\* artifact of the list, from index k on, that carries the environment's
\* name; 0 when there is none.
RECURSIVE FindArtifact(_, _, _)
FindArtifact(artifacts, environment, k) ==
    IF k > Len(artifacts) THEN 0
    ELSE IF artifacts[k].name = ArtifactName(environment) THEN k
    ELSE FindArtifact(artifacts, environment, k + 1)

\* The whole hash instead of its first 7 characters.
WholeSha(head_sha) == head_sha

\* head_sha[:7]
ShortSha(head_sha) == SubSeq(head_sha, 1, Min(7, Len(head_sha)))

\* The payload without the confirmation.
DispatchPayloadUnconfirmed(environment, rollback_type, image_tag) ==
    [ref |-> WORKFLOW_BRANCH,
     inputs |-> [environment |-> environment,
                 rollback_type |-> rollback_type,
                 image_tag |-> image_tag,
                 confirm |-> ""]]

\* The payload of the dispatch POST.
DispatchPayload(environment, rollback_type, image_tag) ==
    [ref |-> WORKFLOW_BRANCH,
     inputs |-> [environment |-> environment,
                 rollback_type |-> rollback_type,
                 image_tag |-> image_tag,
                 confirm |-> "ROLLBACK"]]

\* The POST without raise_for_status.
PostRaisesUnchecked(outcome) == outcome = "network_error"

\* Lines 200-201: requests.post raises when there is no answer, and
\* raise_for_status raises on a 4xx/5xx answer.
PostRaises(outcome) == outcome \in {"network_error", "http_error"}

\* Lines 209-212: requests.get, raise_for_status and response.json() raise on
\* no answer, on a 4xx/5xx answer and on a body that is no JSON.
GetRaises(outcome) == outcome \in {"network_error", "http_error", "malformed"}

\* An empty run list gives None instead of the sentinel.
WorkflowRunIdOrNone(runs) ==
    IF runs # <<>> THEN ToString(runs[1].id) ELSE None

\* What trigger_github_workflow returns for the run list of the lookup.
WorkflowRunId(runs) ==
    IF runs # <<>> THEN ToString(runs[1].id) ELSE "unknown"

\* No wait before the lookup.
WakeAtOnce(t) == t

\* Line 206: time.sleep(2) begun at second t ends at second t + 2.
WakeTime(t) == t + SleepSeconds

\* An id made of the second only.
AuditIdOfSecond(environment, t) == "rollback-" \o ToString(t)

\* The audit id of a record created at epoch second t, and the id returned
\* when the put failed.
AuditId(environment, t) == environment \o "-" \o ToString(t)
FallbackAuditId(t) == "audit-" \o ToString(t)

\* No fallback id when the put failed.
ReturnedAuditIdOrNone(ok, environment, t) ==
    IF ok THEN AuditId(environment, t) ELSE None

\* What log_rollback_request returns (lines 249 and 254).
ReturnedAuditId(ok, environment, t) ==
    IF ok THEN AuditId(environment, t) ELSE FallbackAuditId(t)

\* datetime.isoformat() of epoch second t (t < 60).
IsoFormat(t) ==
    "1970-01-01T00:00:" \o (IF t < 10 THEN "0" ELSE "") \o ToString(t)

\* The item log_rollback_request puts.
AuditItem(audit_id, t, user_id, environment, rollback_type, image_tag, reason) ==
    [audit_id |-> audit_id,
     timestamp |-> IsoFormat(t),
     user_id |-> user_id,
     environment |-> environment,
     rollback_type |-> rollback_type,
     image_tag |-> image_tag,
     reason |-> reason,
     status |-> "initiated",
     workflow_run_id |-> None]

(***************************************************************************)
(* The audit table: a function from keys (audit_id) to items.              *)
(***************************************************************************)
\* put_item: the item replaces whatever the key held.
PutItem(t, item) ==
    [k \in DOMAIN t \cup {item.audit_id} |->
        IF k = item.audit_id THEN item ELSE t[k]]

\* update_item with SET and no condition: the attributes are set on the
\* item of that key, and an item holding only the key and the attributes set
\* is created when the key holds none.
UpdateItem(t, audit_id, workflow_run_id) ==
    LET old == IF audit_id \in DOMAIN t THEN t[audit_id]
                                      ELSE [audit_id |-> audit_id]
        set == [workflow_run_id |-> workflow_run_id, status |-> "triggered"]
        new == [f \in DOMAIN old \cup DOMAIN set |->
                   IF f \in DOMAIN set THEN set[f] ELSE old[f]]
    IN [k \in DOMAIN t \cup {audit_id} |-> IF k = audit_id THEN new ELSE t[k]]

(***************************************************************************)
(* The state.                                                              *)
(***************************************************************************)
VARIABLES
    event,          \* event[i]: the event invocation i is called with
    pc,             \* pc[i]: where invocation i stands
    frame,          \* frame[i]: the local variables of lambda_handler
    resolver,       \* resolver[i]: the locals of get_last_successful_image_tag
    response,       \* response[i]: what lambda_handler returned
    calls,          \* calls[i]: the calls to outside services, in order
    table,          \* the audit table
    now,            \* the wall clock, in epoch seconds
    rollback_runs,  \* the runs of rollback.yml, most recent first
    pending         \* invocations whose accepted dispatch has no run yet

vars ==
    <<event, pc, frame, resolver, response, calls, table, now,
      rollback_runs, pending>>

Unbound == "<unbound>"

NoFrame ==
    [environment |-> Unbound, rollback_type |-> Unbound, user_id |-> Unbound,
     reason |-> Unbound, image_tag |-> Unbound, audit_id |-> Unbound,
     workflow_run_id |-> Unbound, wake |-> 0]

\* resolver[i] outside get_last_successful_image_tag.
NoResolver == [runs |-> <<>>, artifacts |-> <<>>, found |-> 0, download |-> ""]

NoResponse == [statusCode |-> 0]

\* The runs of rollback.yml that exist at the start; by = 0: not dispatched
\* by an invocation of the model.
OldRuns(n) == [k \in 1..n |-> [id |-> n + 1 - k, by |-> 0]]

\* One invocation is called; the other one never is.
Init ==
    /\ event \in [Inv -> Events]
    /\ event[2] = event[1]
    /\ pc = [i \in Inv |-> IF i = 1 THEN "start" ELSE "idle"]
    /\ frame = [i \in Inv |-> NoFrame]
    /\ resolver = [i \in Inv |-> NoResolver]
    /\ response = [i \in Inv |-> NoResponse]
    /\ calls = [i \in Inv |-> <<>>]
    /\ table = <<>>
    /\ now = 0
    /\ rollback_runs \in {OldRuns(n) : n \in 0..MaxOldRuns}
    /\ pending = {}

(***************************************************************************)
(* Steps shared by the actions.                                            *)
(***************************************************************************)
\* lambda_handler returns r.
Return(i, r) ==
    /\ pc' = [pc EXCEPT ![i] = "done"]
    /\ response' = [response EXCEPT ![i] = r]

\* The call c is made.
Call(i, c) == calls' = [calls EXCEPT ![i] = Append(@, c)]

\* ResolverReturns without the check of lines 69-70.
ResolverReturnsUnchecked(i, tag) ==
    /\ pc' = [pc EXCEPT ![i] = "log"]
    /\ frame' = [frame EXCEPT ![i].image_tag = tag]
    /\ UNCHANGED response

\* A resolver that returns nothing is answered as an internal error.
ResolverReturnsRaising(i, tag) ==
    IF Falsy(tag)
    THEN /\ Return(i, InternalError("NotFound"))
         /\ frame' = [frame EXCEPT ![i].image_tag = tag]
    ELSE /\ pc' = [pc EXCEPT ![i] = "log"]
         /\ frame' = [frame EXCEPT ![i].image_tag = tag]
         /\ UNCHANGED response

\* get_last_successful_image_tag returns tag to lambda_handler (lines 68-70).
ResolverReturns(i, tag) ==
    IF Falsy(tag)
    THEN /\ Return(i, NotFound(frame[i].environment))
         /\ frame' = [frame EXCEPT ![i].image_tag = tag]
    ELSE /\ pc' = [pc EXCEPT ![i] = "log"]
         /\ frame' = [frame EXCEPT ![i].image_tag = tag]
         /\ UNCHANGED response

(***************************************************************************)
(* lambda_handler, lines 43-67: parse the body, read the fields, validate. *)
(***************************************************************************)
Start(i) ==
    /\ pc[i] = "start"
    /\ LET parsed == ParseBody(event[i])
       IN IF ~parsed.ok
          THEN Return(i, InternalError(parsed.exc)) /\ UNCHANGED frame
          ELSE IF parsed.value.type # "dict"
          THEN /\ Return(i, InternalError(AttributeError(parsed.value.type)))
               /\ UNCHANGED frame
          ELSE LET body == parsed.value.value
                   environment == Get(body, "environment", None)
                   rollback_type == Get(body, "rollback_type", "terraform")
                   user_id == Get(body, "user_id", None)
                   reason == Get(body, "reason", "Manual rollback via UI")
                   image_tag == Get(body, "image_tag", None)
                   error == Validate(environment, user_id)
               IN IF error # ""
                  THEN Return(i, error_response(400, error)) /\ UNCHANGED frame
                  ELSE /\ frame' = [frame EXCEPT ![i] =
                              [@ EXCEPT !.environment = environment,
                                        !.rollback_type = rollback_type,
                                        !.user_id = user_id,
                                        !.reason = reason,
                                        !.image_tag = image_tag]]
                       /\ pc' = [pc EXCEPT ![i] = AfterValidation(image_tag)]
                       /\ UNCHANGED response
    /\ UNCHANGED <<event, resolver, calls, table, now, rollback_runs, pending>>

(***************************************************************************)
(* get_last_successful_image_tag.                                          *)
(***************************************************************************)
\* Lines 138-147: list the successful runs of deploy.yml.
GetDeployRuns(i) ==
    /\ pc[i] = "get_runs"
    /\ \E outcome \in GetOutcomes, runs \in RunLists :
         /\ outcome # "ok" => runs = <<>>
         /\ Call(i, [op |-> "GET", url |-> "deploy.yml/runs", outcome |-> outcome])
         /\ IF outcome = "ok" /\ runs # <<>>
            THEN /\ resolver' = [resolver EXCEPT ![i].runs = runs]
                 /\ pc' = [pc EXCEPT ![i] = "get_artifacts"]
                 /\ UNCHANGED <<frame, response>>
            ELSE /\ ResolverReturns(i, None)
                 /\ UNCHANGED resolver
    /\ UNCHANGED <<event, table, now, rollback_runs, pending>>

\* Lines 146-156 and 165: list the artifacts of the latest run and look for
\* the environment's artifact.
GetArtifacts(i) ==
    /\ pc[i] = "get_artifacts"
    /\ LET latest_run == LatestRun(resolver[i].runs)
       IN \E outcome \in GetOutcomes, artifacts \in ArtifactLists :
            /\ outcome # "ok" => artifacts = <<>>
            /\ Call(i, [op |-> "GET", url |-> latest_run.artifacts_url,
                        outcome |-> outcome])
            /\ LET found == FindArtifact(artifacts, frame[i].environment, 1)
               IN IF outcome = "ok" /\ found # 0
                  THEN /\ resolver' = [resolver EXCEPT ![i].artifacts = artifacts,
                                                       ![i].found = found]
                       /\ pc' = [pc EXCEPT ![i] = "download"]
                       /\ UNCHANGED <<frame, response>>
                  ELSE /\ resolver' = [resolver EXCEPT ![i].artifacts = artifacts]
                       /\ ResolverReturns(i, None)
    /\ UNCHANGED <<event, table, now, rollback_runs, pending>>

\* Lines 158-163: fetch the artifact's archive (its status and its content
\* are not looked at) and return the short hash of the run's commit.
Download(i) ==
    /\ pc[i] = "download"
    /\ LET latest_run == LatestRun(resolver[i].runs)
           artifact == resolver[i].artifacts[resolver[i].found]
       IN \E outcome \in GetOutcomes :
            /\ Call(i, [op |-> "GET", url |-> artifact.archive_download_url,
                        outcome |-> outcome])
            /\ resolver' = [resolver EXCEPT ![i].download = outcome]
            /\ IF outcome = "network_error"
               THEN ResolverReturns(i, None)
               ELSE ResolverReturns(i, ShortSha(latest_run.head_sha))
    /\ UNCHANGED <<event, table, now, rollback_runs, pending>>

(***************************************************************************)
(* log_rollback_request (lines 232-254), called at lines 73-79.            *)
(***************************************************************************)
LogRollbackRequest(i) ==
    /\ pc[i] = "log"
    /\ \E ok \in BOOLEAN :
         LET f == frame[i]
             audit_id == AuditId(f.environment, now)
             item == AuditItem(audit_id, now, f.user_id, f.environment,
                               f.rollback_type, f.image_tag, f.reason)
         IN /\ Call(i, [op |-> "put_item", Item |-> item, ok |-> ok])
            /\ table' = IF ok THEN PutItem(table, item) ELSE table
            /\ frame' = [frame EXCEPT ![i].audit_id =
                            ReturnedAuditId(ok, f.environment, now)]
    /\ resolver' = [resolver EXCEPT ![i] = NoResolver]
    /\ pc' = [pc EXCEPT ![i] = "dispatch"]
    /\ UNCHANGED <<event, response, now, rollback_runs, pending>>

(***************************************************************************)
(* trigger_github_workflow (lines 183-216), called at lines 82-86.         *)
(***************************************************************************)
\* The dispatch POST tried again after a failure.
DispatchRetrying(i) ==
    /\ pc[i] = "dispatch"
    /\ \E outcome \in PostOutcomes :
         /\ Call(i, [op |-> "POST", url |-> WORKFLOW_FILE \o "/dispatches",
                     json |-> DispatchPayload(frame[i].environment,
                                              frame[i].rollback_type,
                                              frame[i].image_tag),
                     outcome |-> outcome])
         /\ pending' = IF outcome = "accepted" THEN pending \cup {i} ELSE pending
         /\ IF PostRaises(outcome)
            THEN UNCHANGED <<pc, frame>>
            ELSE /\ pc' = [pc EXCEPT ![i] = "sleep"]
                 /\ frame' = [frame EXCEPT ![i].wake = WakeTime(now)]
    /\ UNCHANGED <<event, resolver, response, table, now, rollback_runs>>

\* Lines 183-201: the dispatch POST.  An accepted dispatch makes the CI
\* system create a run, some time later.
Dispatch(i) ==
    /\ pc[i] = "dispatch"
    /\ \E outcome \in PostOutcomes :
         /\ Call(i, [op |-> "POST", url |-> WORKFLOW_FILE \o "/dispatches",
                     json |-> DispatchPayload(frame[i].environment,
                                              frame[i].rollback_type,
                                              frame[i].image_tag),
                     outcome |-> outcome])
         /\ pending' = IF outcome = "accepted" THEN pending \cup {i} ELSE pending
         /\ IF PostRaises(outcome)
            THEN /\ Return(i, InternalError(RequestException(outcome)))
                 /\ UNCHANGED frame
            ELSE /\ pc' = [pc EXCEPT ![i] = "sleep"]
                 /\ frame' = [frame EXCEPT ![i].wake = WakeTime(now)]
                 /\ UNCHANGED response
    /\ UNCHANGED <<event, resolver, table, now, rollback_runs>>

\* Lines 205-206: time.sleep(2) returns once the clock has advanced by two
\* seconds.
Sleep(i) ==
    /\ pc[i] = "sleep"
    /\ now >= frame[i].wake
    /\ pc' = [pc EXCEPT ![i] = "correlate"]
    /\ frame' = [frame EXCEPT ![i].wake = 0]
    /\ UNCHANGED <<event, resolver, response, calls, table, now,
                   rollback_runs, pending>>

\* The page taken from the end of the listing.
PageOfOldest(runs, per_page) ==
    SubSeq(runs, Len(runs) + 1 - Min(per_page, Len(runs)), Len(runs))

\* The page the run listing of rollback.yml returns.
Page(runs, per_page) == SubSeq(runs, 1, Min(per_page, Len(runs)))

\* Lines 208-216: look up the most recent run of rollback.yml.
Correlate(i) ==
    /\ pc[i] = "correlate"
    /\ \E outcome \in GetOutcomes :
         LET workflow_runs == IF outcome = "ok" THEN Page(rollback_runs, 1)
                                                ELSE <<>>
         IN /\ Call(i, [op |-> "GET", url |-> WORKFLOW_FILE \o "/runs",
                        outcome |-> outcome, workflow_runs |-> workflow_runs])
            /\ IF GetRaises(outcome)
               THEN /\ Return(i, InternalError(RequestException(outcome)))
                    /\ UNCHANGED frame
               ELSE /\ frame' = [frame EXCEPT ![i].workflow_run_id =
                                    WorkflowRunId(workflow_runs)]
                    /\ pc' = [pc EXCEPT ![i] = "update"]
                    /\ UNCHANGED response
    /\ UNCHANGED <<event, resolver, table, now, rollback_runs, pending>>

(***************************************************************************)
(* update_audit_log (lines 259-271), called at line 89, and the answer of  *)
(* lines 91-112.                                                           *)
(***************************************************************************)
UpdateAuditLog(i) ==
    /\ pc[i] = "update"
    /\ \E ok \in BOOLEAN :
         /\ Call(i, [op |-> "update_item", Key |-> frame[i].audit_id,
                     workflow_run_id |-> frame[i].workflow_run_id,
                     status |-> "triggered", ok |-> ok])
         /\ table' = IF ok THEN UpdateItem(table, frame[i].audit_id,
                                           frame[i].workflow_run_id)
                           ELSE table
    /\ Return(i, SuccessResponse(frame[i].audit_id, frame[i].workflow_run_id,
                                 frame[i].environment, frame[i].rollback_type,
                                 frame[i].image_tag))
    /\ UNCHANGED <<event, frame, resolver, now, rollback_runs, pending>>

(***************************************************************************)
(* The environment.                                                        *)
(***************************************************************************)
\* An invocation sleeps and its two seconds are not over.
Sleeping(i) == pc[i] = "sleep" /\ now < frame[i].wake

\* A second passes.  The clock stops at MaxClock, except that it goes on
\* until every sleeping invocation has woken up.
Tick ==
    /\ now < MaxClock \/ \E i \in Inv : Sleeping(i)
    /\ now' = now + 1
    /\ UNCHANGED <<event, pc, frame, resolver, response, calls, table,
                   rollback_runs, pending>>

\* The CI system creates the run of an accepted dispatch.
RegisterRun ==
    /\ \E i \in pending :
         /\ rollback_runs' =
               <<[id |-> Len(rollback_runs) + 1, by |-> i]>> \o rollback_runs
         /\ pending' = pending \ {i}
    /\ UNCHANGED <<event, pc, frame, resolver, response, calls, table, now>>

Next ==
    \/ \E i \in Inv : Start(i)
    \/ \E i \in Inv : GetDeployRuns(i)
    \/ \E i \in Inv : GetArtifacts(i)
    \/ \E i \in Inv : Download(i)
    \/ \E i \in Inv : LogRollbackRequest(i)
    \/ \E i \in Inv : Dispatch(i)
    \/ \E i \in Inv : Sleep(i)
    \/ \E i \in Inv : Correlate(i)
    \/ \E i \in Inv : UpdateAuditLog(i)
    \/ Tick
    \/ RegisterRun

Spec == Init /\ [][Next]_vars

(***************************************************************************)
(* Two invocations at once, as two instances of the function run with no   *)
(* coordination.  Both requests are valid and carry the version, so that   *)
(* both reach the audit step; the first is for dev, the second for dev or  *)
(* for prod.                                                               *)
(***************************************************************************)
ConcurrentEvent(env) ==
    [httpMethod |-> "POST",
     body |-> PyStr(JsonDumps(PyDict(MakeBody(env, Absent, "abc123d",
                                              "u@example.com"))))]

InitConcurrent ==
    /\ event \in {[i \in Inv |-> ConcurrentEvent(IF i = 1 THEN "dev" ELSE env)] :
                      env \in {"dev", "prod"}}
    /\ pc = [i \in Inv |-> "start"]
    /\ frame = [i \in Inv |-> NoFrame]
    /\ resolver = [i \in Inv |-> NoResolver]
    /\ response = [i \in Inv |-> NoResponse]
    /\ calls = [i \in Inv |-> <<>>]
    /\ table = <<>>
    /\ now = 0
    /\ rollback_runs = <<>>
    /\ pending = {}

NextConcurrent ==
    \/ \E i \in Inv : Start(i)
    \/ \E i \in Inv : LogRollbackRequest(i)
    \/ \E i \in Inv : Dispatch(i)
    \/ \E i \in Inv : Sleep(i)
    \/ \E i \in Inv : Correlate(i)
    \/ \E i \in Inv : UpdateAuditLog(i)
    \/ Tick
    \/ RegisterRun

SpecConcurrent == InitConcurrent /\ [][NextConcurrent]_vars

(***************************************************************************)
(* Every call to an outside service returns or raises, and time passes: a  *)
(* step of the handler that can be taken is taken.                         *)
(***************************************************************************)
Step(i) ==
    \/ Start(i)
    \/ GetDeployRuns(i)
    \/ GetArtifacts(i)
    \/ Download(i)
    \/ LogRollbackRequest(i)
    \/ Dispatch(i)
    \/ Sleep(i)
    \/ Correlate(i)
    \/ UpdateAuditLog(i)

FairSpec ==
    /\ Spec
    /\ \A i \in Inv : WF_vars(Step(i))
    /\ WF_vars(Tick)

(***************************************************************************)
(* What the properties below speak about: the request as the caller sent   *)
(* it, the answer, and the calls made.                                     *)
(***************************************************************************)
\* The fields the request of invocation i carries: those of its body when
\* the body is an object or the JSON text of one, else none.
Request(i) ==
    LET ev == event[i]
    IN IF "body" \notin DOMAIN ev THEN <<>>
       ELSE IF ev.body.type = "dict" THEN ev.body.value
       ELSE IF ev.body.type = "str" /\ ev.body.value.valid
               /\ ev.body.value.doc.type = "dict"
            THEN ev.body.value.doc.value
       ELSE <<>>

Field(i, key) == IF key \in DOMAIN Request(i) THEN Request(i)[key] ELSE None

Missing(v) == v \in {None, ""}

ValidRequest(i) ==
    /\ Field(i, "environment") \in {"dev", "prod"}
    /\ ~Missing(Field(i, "user_id"))

Done(i) == pc[i] = "done"

StatusCode(i) == response[i].statusCode

\* The decoded body of the answer.
Answer(i) == response[i].body.doc

\* The places in calls[i] of the calls that satisfy P.
CallsWhere(i, P(_)) == {k \in 1..Len(calls[i]) : P(calls[i][k])}

IsPut(c) == c.op = "put_item"
IsUpdate(c) == c.op = "update_item"
IsDispatch(c) == c.op = "POST"
IsAccepted(c) == c.op = "POST" /\ c.outcome = "accepted"
IsLookup(c) == c.op = "GET" /\ c.url = "rollback.yml/runs"
IsResolverCall(c) == c.op = "GET" /\ c.url # "rollback.yml/runs"

\* C1: a request whose environment is missing or is neither dev nor prod
\* (a body that is null, no JSON or no object included) is answered 400 and
\* no outside call is made.
C1_InvalidEnvironmentIs400 ==
    \A i \in Inv :
        Done(i) /\ Field(i, "environment") \notin {"dev", "prod"}
            => StatusCode(i) = 400 /\ calls[i] = <<>>

\* What the code does for C1's requests: no outside call is made, the answer
\* is 400 when the body yields an object and 500 when it does not.
InvalidEnvironmentMakesNoCall ==
    \A i \in Inv :
        Done(i) /\ Field(i, "environment") \notin {"dev", "prod"}
            => /\ calls[i] = <<>>
               /\ StatusCode(i) \in {400, 500}

\* C2: a request whose user_id is missing or empty is answered 400, and
\* neither version resolution nor an audit write nor a dispatch happens.
C2_MissingUserIdIs400 ==
    \A i \in Inv :
        Done(i) /\ Missing(Field(i, "user_id"))
            => StatusCode(i) = 400 /\ calls[i] = <<>>

\* The body of invocation i is an object, the JSON text of one, or not there.
BodyIsObject(i) ==
    \/ "body" \notin DOMAIN event[i]
    \/ event[i].body.type = "dict"
    \/ /\ event[i].body.type = "str"
       /\ event[i].body.value.valid
       /\ event[i].body.value.doc.type = "dict"

\* What the code does for C2's requests whose body yields an object.
MissingUserIdOfObjectIs400 ==
    \A i \in Inv :
        Done(i) /\ BodyIsObject(i) /\ Missing(Field(i, "user_id"))
            => StatusCode(i) = 400 /\ calls[i] = <<>>

\* C3: a valid request without image_tag for which the version resolver
\* yields nothing is answered 404, and no audit item is put, no dispatch is
\* sent and no audit update is made.
C3_NothingResolvedIs404 ==
    \A i \in Inv :
        /\ ValidRequest(i)
        /\ Missing(Field(i, "image_tag"))
        /\ frame[i].image_tag = None
        /\ pc[i] \notin {"start", "get_runs", "get_artifacts", "download"}
        => /\ Done(i)
           /\ StatusCode(i) = 404
           /\ Answer(i).status = "error"
           /\ CallsWhere(i, IsPut) = {}
           /\ CallsWhere(i, IsDispatch) = {}
           /\ CallsWhere(i, IsUpdate) = {}

\* C3's case: the CI system lists no successful deploy run.
C3_Witness ==
    \E i \in Inv :
        /\ Done(i)
        /\ ValidRequest(i)
        /\ Missing(Field(i, "image_tag"))
        /\ calls[i] = <<[op |-> "GET", url |-> "deploy.yml/runs", outcome |-> "ok"]>>
        /\ StatusCode(i) = 404

\* get_last_successful_image_tag has returned to invocation i and its last
\* answers are still at hand.
Resolved(i) ==
    /\ resolver[i].runs # <<>>
    /\ pc[i] \in {"log", "done"}

\* The artifact list the resolver of invocation i got names the artifact of
\* the request's environment.
ListsArtifact(i) ==
    \E k \in 1..Len(resolver[i].artifacts) :
        resolver[i].artifacts[k].name
            = "last-successful-deployment-" \o Field(i, "environment")

\* The first 7 characters of the commit hash of the most recent run.
First7(i) == SubSeq(resolver[i].runs[1].head_sha, 1, 7)

\* C4 as stated: whenever the most recent successful run lists the artifact
\* of the environment, the resolver returns the first 7 characters of the
\* run's head_sha, whatever becomes of the fetch of the artifact's payload.
C4_ShortShaWhateverTheDownload ==
    \A i \in Inv :
        Resolved(i) /\ ListsArtifact(i) => frame[i].image_tag = First7(i)

\* C4 as amended: the resolver returns the first 7 characters of head_sha
\* whenever the fetch of the payload is answered, whatever the status and
\* the content of the answer; when the fetch raises (no answer), it returns
\* None and the handler answers 404.
C4_ShortShaWhenDownloadAnswered ==
    \A i \in Inv :
        Resolved(i) /\ ListsArtifact(i)
            => IF resolver[i].download = "network_error"
               THEN frame[i].image_tag = None /\ StatusCode(i) = 404
               ELSE /\ frame[i].image_tag = First7(i)
                    /\ Len(frame[i].image_tag) = 7
                    /\ pc[i] = "log"

\* C4's case: the artifact is listed and its fetch is answered 4xx/5xx.
C4_Witness ==
    \E i \in Inv :
        /\ Resolved(i)
        /\ ListsArtifact(i)
        /\ Field(i, "environment") = "prod"
        /\ resolver[i].download = "http_error"
        /\ frame[i].image_tag = "a1b2c3d"

\* The calls of invocation i that were answered with a failure.
FailedCalls(i) ==
    {k \in 1..Len(calls[i]) :
        LET c == calls[i][k]
        IN \/ c.op \in {"put_item", "update_item"} /\ ~c.ok
           \/ c.op = "POST" /\ c.outcome # "accepted"
           \/ c.op = "GET" /\ c.outcome # "ok"}

\* C5: a valid request with image_tag, every call of which succeeds, makes
\* exactly one put of an item of status initiated, exactly one dispatch
\* POST with confirm = ROLLBACK, exactly one update to status triggered, and
\* is answered 200 with the image_tag supplied.
C5_SuccessfulRun ==
    \A i \in Inv :
        /\ Done(i)
        /\ ValidRequest(i)
        /\ ~Missing(Field(i, "image_tag"))
        /\ FailedCalls(i) = {}
        => /\ Cardinality(CallsWhere(i, IsPut)) = 1
           /\ \A k \in CallsWhere(i, IsPut) :
                 calls[i][k].Item.status = "initiated"
           /\ Cardinality(CallsWhere(i, IsDispatch)) = 1
           /\ \A k \in CallsWhere(i, IsDispatch) :
                 calls[i][k].json.inputs.confirm = "ROLLBACK"
           /\ Cardinality(CallsWhere(i, IsUpdate)) = 1
           /\ \A k \in CallsWhere(i, IsUpdate) :
                 calls[i][k].status = "triggered"
           /\ StatusCode(i) = 200
           /\ Answer(i).data.image_tag = Field(i, "image_tag")

\* C5's case: the request of the specification's example.
C5_Witness ==
    \E i \in Inv :
        /\ Done(i)
        /\ Field(i, "environment") = "prod"
        /\ Field(i, "image_tag") = "abc123d"
        /\ Field(i, "user_id") = "u@example.com"
        /\ FailedCalls(i) = {}
        /\ StatusCode(i) = 200
        /\ table[frame[i].audit_id].status = "triggered"

\* The lookup of invocation i was answered with an empty run list.
EmptyLookup(i) ==
    \E k \in CallsWhere(i, IsLookup) :
        calls[i][k].outcome = "ok" /\ calls[i][k].workflow_runs = <<>>

\* C6: when the dispatch is accepted and the lookup returns an empty run
\* list, trigger_github_workflow returns "unknown", the answer is 200 with
\* workflow_run_id "unknown", and the audit update is made with "unknown".
C6_EmptyLookupIsUnknown ==
    \A i \in Inv :
        CallsWhere(i, IsAccepted) # {} /\ EmptyLookup(i)
            => /\ frame[i].workflow_run_id = "unknown"
               /\ pc[i] \in {"update", "done"}
               /\ Done(i) =>
                    /\ StatusCode(i) = 200
                    /\ Answer(i).data.workflow_run_id = "unknown"
                    /\ \E k \in CallsWhere(i, IsUpdate) :
                          calls[i][k].workflow_run_id = "unknown"

\* C6's case: the answer after an empty lookup, the audit item updated.
C6_Witness ==
    \E i \in Inv :
        /\ Done(i)
        /\ EmptyLookup(i)
        /\ StatusCode(i) = 200
        /\ frame[i].audit_id \in DOMAIN table
        /\ table[frame[i].audit_id].workflow_run_id = "unknown"

\* The one call of invocation i that satisfies P.
TheCall(i, P(_)) == calls[i][CHOOSE k \in CallsWhere(i, P) : TRUE]

\* The ids log_rollback_request can fall back to.
FallbackIds ==
    {"audit-" \o ToString(t) :
        t \in 0..(MaxClock + SleepSeconds * Cardinality(Inv))}

\* C7: whether the audit put and the audit update fail or not, an invocation
\* that reached the audit step goes on to the dispatch, its status code,
\* workflow_run_id and image_tag are those the answers of the CI system
\* alone determine, and its audit_id is a non-empty string: the id of the
\* item put, or audit-<epoch seconds> when the put failed.
C7_AuditFailureChangesNothing ==
    \A i \in Inv :
        CallsWhere(i, IsPut) # {} =>
            LET put == TheCall(i, IsPut)
            IN /\ Cardinality(CallsWhere(i, IsPut)) = 1
               /\ pc[i] # "dispatch" => CallsWhere(i, IsDispatch) # {}
               /\ Len(frame[i].audit_id) > 0
               /\ IF put.ok THEN frame[i].audit_id = put.Item.audit_id
                            ELSE frame[i].audit_id \in FallbackIds
               /\ Done(i) =>
                    LET post == TheCall(i, IsDispatch)
                    IN IF post.outcome # "accepted"
                       THEN StatusCode(i) = 500
                       ELSE LET lookup == TheCall(i, IsLookup)
                            IN IF lookup.outcome # "ok"
                               THEN StatusCode(i) = 500
                               ELSE /\ StatusCode(i) = 200
                                    /\ Answer(i).data.audit_id = frame[i].audit_id
                                    /\ Answer(i).data.image_tag
                                          = post.json.inputs.image_tag
                                    /\ Answer(i).data.workflow_run_id =
                                          IF lookup.workflow_runs = <<>>
                                          THEN "unknown"
                                          ELSE ToString(lookup.workflow_runs[1].id)

\* C7's case: the put and the update both fail and the answer is 200 with
\* the fallback id.
C7_Witness ==
    \E i \in Inv :
        /\ Done(i)
        /\ StatusCode(i) = 200
        /\ ~TheCall(i, IsPut).ok
        /\ ~TheCall(i, IsUpdate).ok
        /\ Answer(i).data.audit_id \in FallbackIds
        /\ table = <<>>

\* The dispatch POST of invocation i was answered 4xx/5xx.
DispatchRejected(i) ==
    \E k \in CallsWhere(i, IsDispatch) : calls[i][k].outcome = "http_error"

\* C8: when the dispatch POST is answered with a non-2xx status, the answer
\* is 500, no lookup and no audit update are made, and the audit item put
\* for the request stays in status initiated with workflow_run_id null.
C8_RejectedDispatchIs500 ==
    \A i \in Inv :
        DispatchRejected(i)
            => /\ Done(i)
               /\ StatusCode(i) = 500
               /\ CallsWhere(i, IsLookup) = {}
               /\ CallsWhere(i, IsUpdate) = {}
               /\ \A k \in CallsWhere(i, IsPut) :
                     calls[i][k].ok =>
                        /\ calls[i][k].Item.audit_id \in DOMAIN table
                        /\ table[calls[i][k].Item.audit_id].status = "initiated"
                        /\ table[calls[i][k].Item.audit_id].workflow_run_id = None

\* C8's case: the item was put and the dispatch was rejected.
C8_Witness ==
    \E i \in Inv :
        /\ DispatchRejected(i)
        /\ TheCall(i, IsPut).ok
        /\ StatusCode(i) = 500
        /\ table[frame[i].audit_id].status = "initiated"

\* C9: whenever the CI system accepted the dispatch POST, the answer is 200,
\* however the lookup turns out; a non-200 answer means that no dispatch was
\* accepted.
C9_AcceptedDispatchIs200 ==
    \A i \in Inv :
        Done(i) /\ CallsWhere(i, IsAccepted) # {} => StatusCode(i) = 200

\* What the code does after an accepted dispatch: 200 when the lookup is
\* answered with a run list, 500 when it fails.
AcceptedDispatchAnswer ==
    \A i \in Inv :
        Done(i) /\ CallsWhere(i, IsAccepted) # {}
            => StatusCode(i) =
                  IF TheCall(i, IsLookup).outcome = "ok" THEN 200 ELSE 500

\* C10: within one invocation the audit put comes before the dispatch POST,
\* the POST before the lookup, and the audit update only after an accepted
\* dispatch and an answered lookup; version resolution, when needed, comes
\* before the put.
C10_OrderOfCalls ==
    \A i \in Inv : \A k \in 1..Len(calls[i]) :
        LET c == calls[i][k]
            Before(P(_)) == {j \in CallsWhere(i, P) : j < k}
            AnsweredLookup(x) == IsLookup(x) /\ x.outcome = "ok"
        IN /\ IsDispatch(c) => Before(IsPut) # {}
           /\ IsLookup(c) => Before(IsAccepted) # {}
           /\ IsUpdate(c) =>
                \E m \in Before(AnsweredLookup) :
                    \E j \in CallsWhere(i, IsAccepted) : j < m
           /\ IsResolverCall(c) => Before(IsPut) = {}
           /\ IsPut(c) /\ Missing(Field(i, "image_tag"))
                => Before(IsResolverCall) # {}

\* C10's case: an invocation that made every call: the three of the version
\* resolver, the put, the POST, the lookup and the update.
C10_Witness ==
    \E i \in Inv :
        /\ Done(i)
        /\ StatusCode(i) = 200
        /\ Cardinality(CallsWhere(i, IsResolverCall)) = 3
        /\ Len(calls[i]) = 7

\* C11: an invocation sends at most one dispatch POST, whatever the POST
\* and the lookup answer, and none at all when it answers 400 or 404.
C11_AtMostOneDispatch ==
    \A i \in Inv :
        /\ Cardinality(CallsWhere(i, IsDispatch)) <= 1
        /\ Done(i) /\ StatusCode(i) \in {400, 404}
              => CallsWhere(i, IsDispatch) = {}
        /\ Done(i) /\ StatusCode(i) \in {200, 500} /\ CallsWhere(i, IsPut) # {}
              => Cardinality(CallsWhere(i, IsDispatch)) = 1

\* C11's case: the dispatch failed, the invocation answered 500 and sent no
\* second POST.
C11_Witness ==
    \E i \in Inv :
        /\ Done(i)
        /\ StatusCode(i) = 500
        /\ Cardinality(CallsWhere(i, IsDispatch)) = 1
        /\ TheCall(i, IsDispatch).outcome = "network_error"

\* The successful puts of all invocations that wrote key k.
PutsOf(k) ==
    {<<i, n>> \in Inv \X (1..8) :
        /\ n <= Len(calls[i])
        /\ IsPut(calls[i][n])
        /\ calls[i][n].ok
        /\ calls[i][n].Item.audit_id = k}

\* The successful updates of all invocations under key k.
UpdatesOf(k) ==
    {<<i, n>> \in Inv \X (1..8) :
        /\ n <= Len(calls[i])
        /\ IsUpdate(calls[i][n])
        /\ calls[i][n].ok
        /\ calls[i][n].Key = k}

\* The audit create of invocation i succeeded.
Created(i) == \E k \in CallsWhere(i, IsPut) : calls[i][k].ok

\* Invocation i finished with 200 and returned the id of a run that the
\* dispatch of another invocation created.
ReturnedRunOfOther(i) ==
    /\ Done(i)
    /\ StatusCode(i) = 200
    /\ TheCall(i, IsLookup).workflow_runs # <<>>
    /\ TheCall(i, IsLookup).workflow_runs[1].by \in Inv \ {i}
    /\ Answer(i).data.workflow_run_id =
          ToString(TheCall(i, IsLookup).workflow_runs[1].id)

\* C12: of two invocations at once, one may answer 200 with the id of the
\* run the other one's dispatch created and write that id to its audit
\* record; nothing in the handler prevents it: the id taken at the lookup is
\* that of the first run of rollback.yml at that moment, whoever created it,
\* and that id is answered and written.
C12_ReturnsFirstRunWhoeverCreatedIt ==
    /\ [](\A i \in Inv :
             Done(i) /\ StatusCode(i) = 200
                => /\ Answer(i).data.workflow_run_id = frame[i].workflow_run_id
                   /\ TheCall(i, IsUpdate).workflow_run_id
                         = frame[i].workflow_run_id
                   /\ TheCall(i, IsUpdate).Key = Answer(i).data.audit_id)
    /\ [][\A i \in Inv :
             pc[i] = "correlate" /\ pc'[i] = "update"
                => frame'[i].workflow_run_id =
                      IF rollback_runs = <<>> THEN "unknown"
                      ELSE ToString(rollback_runs[1].id)]_vars
    /\ [][\A i \in Inv :
             pc[i] = "update" /\ pc'[i] = "done"
                /\ calls'[i][Len(calls'[i])].ok
                => table'[frame[i].audit_id].workflow_run_id
                      = frame[i].workflow_run_id]_vars

\* C12's case: the run of the other invocation's dispatch is returned and
\* stands in the invocation's own audit record.
C12_Witness ==
    \E i \in Inv :
        /\ ReturnedRunOfOther(i)
        /\ Created(i)
        /\ \A j \in Inv \ {i} : frame[j].audit_id # frame[i].audit_id
        /\ TheCall(i, IsUpdate).ok
        /\ table[frame[i].audit_id].workflow_run_id
              = ToString(TheCall(i, IsLookup).workflow_runs[1].id)
        /\ table[frame[i].audit_id].status = "triggered"

\* C13: two invocations whose audit create succeeds have the same audit_id
\* if and only if they have the same environment and their creates fall in
\* the same second; the later put then replaces the item of the earlier one
\* and the table holds one item for the two; otherwise each holds one item
\* under its own key.
C13_SameIdIffSameEnvironmentAndSecond ==
    /\ [](\A i, j \in Inv :
             i # j /\ Created(i) /\ Created(j)
                => LET a == TheCall(i, IsPut).Item
                       b == TheCall(j, IsPut).Item
                   IN /\ a.audit_id = b.audit_id
                         <=> /\ a.environment = b.environment
                             /\ a.timestamp = b.timestamp
                      /\ frame[i].audit_id = a.audit_id
                      /\ DOMAIN table = {a.audit_id, b.audit_id}
                      /\ table[a.audit_id].environment = a.environment
                      /\ table[a.audit_id].timestamp = a.timestamp)
    /\ [][\A i \in Inv :
             pc[i] = "log" /\ pc'[i] = "dispatch"
                /\ calls'[i][Len(calls'[i])].ok
                => /\ table'[frame'[i].audit_id] = calls'[i][Len(calls'[i])].Item
                   /\ DOMAIN table' = DOMAIN table \cup {frame'[i].audit_id}]_vars

\* C13's case: both creates succeed in the same second for the same
\* environment.
C13_Witness ==
    \E i, j \in Inv :
        /\ i # j
        /\ Created(i) /\ Created(j)
        /\ Done(i) /\ Done(j)
        /\ TheCall(i, IsPut).Item.audit_id = TheCall(j, IsPut).Item.audit_id
        /\ Cardinality(DOMAIN table) = 1

\* Every key written by a successful put or update is in the table.
NothingDeleted ==
    \A i \in Inv : \A n \in DOMAIN calls[i] :
        LET c == calls[i][n]
        IN /\ IsPut(c) /\ c.ok => c.Item.audit_id \in DOMAIN table
           /\ IsUpdate(c) /\ c.ok => c.Key \in DOMAIN table

\* A record has a run id exactly when it is triggered.
RunIdIffTriggered ==
    \A k \in DOMAIN table :
        /\ table[k].status \in {"initiated", "triggered"}
        /\ table[k].workflow_run_id # None <=> table[k].status = "triggered"

C15_UpdateCreatesNoRecord ==
    \A k \in DOMAIN table : PutsOf(k) # {}

\* What the code does for C15: a successful update under a key that holds
\* no item (the fallback id) creates an item with the key, the run id and the
\* status only.
UpdateUnderFallbackIdCreatesStub ==
    \A k \in DOMAIN table :
        PutsOf(k) = {} =>
            /\ k \in FallbackIds
            /\ DOMAIN table[k] = {"audit_id", "workflow_run_id", "status"}
            /\ table[k].status = "triggered"

\* The fetches of the version resolver: of the artifact's archive, and of
\* the artifact list of a run.
IsDownload(c) ==
    c.op = "GET" /\ c.url \in {"zip/" \o n : n \in ArtifactNames}
IsListing(c) ==
    IsResolverCall(c) /\ c.url # "deploy.yml/runs" /\ ~IsDownload(c)

NothingAfterResolution(i) ==
    /\ frame[i].image_tag = None
    /\ Done(i)
    /\ StatusCode(i) = 404
    /\ CallsWhere(i, IsPut) = {}
    /\ CallsWhere(i, IsDispatch) = {}
    /\ CallsWhere(i, IsUpdate) = {}

\* C16 as stated: any failure inside version resolution (no answer, a
\* non-2xx answer or a malformed answer to the run listing, the artifact
\* listing or the artifact download) makes the resolver return nothing; the
\* handler answers 404, never 500, and makes no audit write and no dispatch.
C16_AnyResolverFailureIs404 ==
    \A i \in Inv :
        (\E k \in CallsWhere(i, IsResolverCall) : calls[i][k].outcome # "ok")
            => NothingAfterResolution(i)

\* C16 as amended: the failures that make the resolver return nothing are
\* those of the two listings and a download that gets no answer; a download
\* answered non-2xx or with an unreadable payload is no failure: the resolver
\* returns the short hash.  No failure inside the resolver is answered 500.
C16_AbsorbedResolverFailureIs404 ==
    \A i \in Inv : \A k \in CallsWhere(i, IsResolverCall) :
        LET c == calls[i][k]
        IN /\ c.outcome # "ok" /\ (IsDownload(c) => c.outcome = "network_error")
                => NothingAfterResolution(i)
           /\ IsDownload(c) /\ c.outcome \in {"http_error", "malformed"}
                => /\ Len(frame[i].image_tag) = 7
                   /\ Done(i) => StatusCode(i) # 404
           /\ k = Len(calls[i]) /\ Done(i) => StatusCode(i) = 404

\* C16's case: the artifact listing is answered 5xx.
C16_Witness ==
    \E i \in Inv :
        /\ Len(calls[i]) = 2
        /\ IsListing(calls[i][2])
        /\ calls[i][2].outcome = "http_error"
        /\ NothingAfterResolution(i)

\* The resolver of invocation i returned a version.
ReturnedVersion(i) == frame[i].image_tag \notin {None, Unbound}

\* Only the artifacts of the first run of the page are asked for.
OnlyLatestRunConsulted(i) ==
    /\ Cardinality(CallsWhere(i, IsListing)) <= 1
    /\ \A k \in CallsWhere(i, IsListing) :
          calls[i][k].url = resolver[i].runs[1].artifacts_url

\* C17 as stated: the resolver consults only the most recent successful run
\* and returns a version if and only if the artifact list of that run names
\* the environment's artifact; otherwise the handler answers 404, whatever
\* the older runs of the page carry.
C17_VersionIffLatestRunListsArtifact ==
    \A i \in Inv :
        Resolved(i) =>
            /\ OnlyLatestRunConsulted(i)
            /\ ReturnedVersion(i) <=> ListsArtifact(i)
            /\ ~ListsArtifact(i) => Done(i) /\ StatusCode(i) = 404

\* C17 as amended: the resolver returns a version if and only if the
\* artifact list of the most recent run names the environment's artifact and
\* the fetch of its archive does not raise.
C17_VersionIffListedAndFetched ==
    \A i \in Inv :
        Resolved(i) =>
            /\ OnlyLatestRunConsulted(i)
            /\ ReturnedVersion(i)
                 <=> ListsArtifact(i) /\ resolver[i].download # "network_error"
            /\ ReturnedVersion(i) => frame[i].image_tag = First7(i)
            /\ ~ReturnedVersion(i) => Done(i) /\ StatusCode(i) = 404

\* C17's case: a page of two runs, the artifact list of the first one
\* without the environment's artifact.
C17_Witness ==
    \E i \in Inv :
        /\ Resolved(i)
        /\ Len(resolver[i].runs) = 2
        /\ Len(resolver[i].artifacts) = 2
        /\ ~ListsArtifact(i)
        /\ Len(calls[i]) = 2
        /\ calls[i][2].url = "runs/2/artifacts"
        /\ StatusCode(i) = 404

\* The answer of a finished invocation is one the handler builds.
WellFormedAnswer(i) ==
    /\ StatusCode(i) \in {200, 400, 404, 500}
    /\ Answer(i).status \in {"success", "error"}
    /\ Answer(i).status = "success" <=> StatusCode(i) = 200
    /\ "Access-Control-Allow-Origin" \in DOMAIN response[i].headers
    /\ response[i].headers["Access-Control-Allow-Origin"] = "*"

\* C18: when every outside call returns or raises, every invocation ends
\* and gives one answer, which it never changes; no exception leaves the
\* handler; the statusCode is 200, 400, 404 or 500, the body's status is
\* success exactly when the statusCode is 200, and the answer carries the
\* header Access-Control-Allow-Origin: *.
C18_TerminatesWithOneAnswer ==
    /\ [](\A i \in Inv :
             /\ Done(i) => WellFormedAnswer(i)
             /\ ~Done(i) => response[i] = NoResponse)
    /\ [][\A i \in Inv :
             Done(i) => pc'[i] = "done" /\ response'[i] = response[i]]_vars
    /\ \A i \in Inv : pc[i] = "start" ~> Done(i)

\* C18's case: an exception raised inside the handler, answered 500.
C18_Witness ==
    \E i \in Inv :
        /\ Done(i)
        /\ StatusCode(i) = 500
        /\ WellFormedAnswer(i)
        /\ \E k \in CallsWhere(i, IsLookup) : calls[i][k].outcome = "malformed"

\* C19: an invocation running alone returns, after an accepted dispatch,
\* either "unknown" or the id of the run its own dispatch created, never the
\* id of a run that existed before.
C19_OwnRunOrUnknown ==
    \A i \in Inv :
        Done(i) /\ StatusCode(i) = 200
            => \/ Answer(i).data.workflow_run_id = "unknown"
               \/ TheCall(i, IsLookup).workflow_runs[1].by = i

\* What the code does for C19: the id returned is that of the first run of
\* the list at the time of the lookup, whoever created it.
ReturnsMostRecentRun ==
    \A i \in Inv :
        Done(i) /\ StatusCode(i) = 200
            => LET runs == TheCall(i, IsLookup).workflow_runs
               IN Answer(i).data.workflow_run_id =
                     IF runs = <<>> THEN "unknown" ELSE ToString(runs[1].id)

\* C20: within an invocation the image_tag, the environment and the
\* rollback_type of the audit item, of the dispatch inputs and of the 200
\* answer are the same; a non-empty image_tag of the request is the one used
\* and the version resolver is then not called.
C20_OneVersionEverywhere ==
    \A i \in Inv :
        LET Same(a, b) == /\ a.image_tag = b.image_tag
                          /\ a.environment = b.environment
                          /\ a.rollback_type = b.rollback_type
        IN /\ \A k \in CallsWhere(i, IsPut) :
                 /\ Same(calls[i][k].Item, frame[i])
                 /\ calls[i][k].Item.environment = Field(i, "environment")
                 /\ calls[i][k].Item.rollback_type =
                       IF "rollback_type" \in DOMAIN Request(i)
                       THEN Request(i).rollback_type ELSE "terraform"
           /\ \A k \in CallsWhere(i, IsDispatch) :
                 /\ CallsWhere(i, IsPut) # {}
                 /\ Same(calls[i][k].json.inputs, TheCall(i, IsPut).Item)
           /\ Done(i) /\ StatusCode(i) = 200
                 => Same(Answer(i).data, TheCall(i, IsPut).Item)
           /\ ~Missing(Field(i, "image_tag"))
                 => /\ CallsWhere(i, IsResolverCall) = {}
                    /\ pc[i] \notin {"get_runs", "get_artifacts", "download"}
                    /\ \A k \in CallsWhere(i, IsPut) :
                          calls[i][k].Item.image_tag = Field(i, "image_tag")

\* C20's case: a request with image_tag and rollback_type, answered 200.
C20_Witness ==
    \E i \in Inv :
        /\ Done(i)
        /\ StatusCode(i) = 200
        /\ Field(i, "image_tag") = "abc123d"
        /\ Field(i, "rollback_type") = "ecs-taskdef"
        /\ Answer(i).data.image_tag = "abc123d"
        /\ TheCall(i, IsDispatch).json.inputs.image_tag = "abc123d"
        /\ TheCall(i, IsPut).Item.image_tag = "abc123d"

============================================================================
